---- MODULE Spec2Model ----
(***************************************************************************)
(* The interactive login attempt of the Rownd CLI, as a state machine.     *)
(*                                                                         *)
(* The repository holds three implementations of the login attempt:        *)
(*   "pkce"  src/src/lib/auth.ts        startInteractiveLogin (finish)     *)
(*   "hub"   src/unnamed/part_003:24    startInteractiveLogin/waitForCallback *)
(*   "oauth" src/unnamed/part_003:314   startOAuthFlow (called by the      *)
(*           login command, src/src/commands/auth.ts:57)                   *)
(* One attempt runs one of them; flow says which.  The events of an        *)
(* attempt (requests to the callback server, completions of the fetches    *)
(* awaited by a handler, poll ticks, a listener 'error' event, the 5       *)
(* minute timer) are the actions; every action is one run of a callback    *)
(* of the event loop from its start to its next await or its return.      *)
(***************************************************************************)
EXTENDS Integers, Sequences, FiniteSets, TLC

\* ---------------------------------------------------------------- bounds
\* requests received by the callback server in one attempt
MaxRequests == 2
\* ticks of the 3 second poll interval in one attempt
MaxTicks == 2
\* 'error' events of the callback server in one attempt
MaxErrors == 1
\* commands using the API run one after the other
MaxOps == 1
\* logouts run among them
MaxLogouts == 2

VARIABLES
  flow,          \* which implementation runs the attempt
  pc,            \* "pre": before the callback server exists; "racing": after;
                 \* "early": Login returned without creating one
  challengeId,   \* hub: initData.challenge_id is set
  resolved,      \* the flag `done` (pkce) / `resolved` (hub, oauth)
  outcome,       \* state of the promise Login returns
  settleLog,     \* every value handed to resolve()/reject(), in call order
  listener,      \* the callback server: "none","binding","listening","closed","failed"
  closeCalls,    \* calls of server.close()
  pollTimer,     \* hub: "none","active","noop","cleared"
  clearCalls,    \* calls of clearInterval(pollTimer)
  timer,         \* the 5 minute setTimeout: "none","armed","fired"
  browser,       \* "none","opened","url_printed"
  reqs,          \* the requests received, in order, with their handler's state
  ticks,         \* poll ticks so far
  polling,       \* pollChallengeOnce calls of poll ticks still awaited
  failedPolls,   \* those that ended without tokens
  errors,        \* 'error' events so far
  crashed,       \* the process died of an unhandled rejection
  cmd,           \* the login command: "awaiting","stored","exited"
  configAuth,    \* ConfigManager.config.auth (in memory)
  file,          \* the auth section of the persisted config file
  file0,         \* the persisted auth section when the attempt started
  rng,           \* the bytes randomBytes(32) returns in this process
  pkce,          \* the PKCE material of the attempt: verifier, challenge, state
  now,           \* Date.now(), in ms
  apc,           \* a command using the API: "idle","refreshing","requesting","done"
  ops,           \* commands using the API run so far
  logouts,       \* logouts run so far
  kind,          \* the command: "none","resource","status","logout","login"
  prevKind,      \* the command before it
  flagToken,     \* the value of the global --token flag, "" when not given;
                 \* of a login, the value of its own --token option
  envToken,      \* process.env.ROWND_API_TOKEN, "" when not set
  evt,           \* the call of ensureValidToken made by the command
  bearer,        \* the Authorization bearer of the command's requests, "" before
  sent,          \* requests the command sent to the API
  attempt,       \* retryRequest's loop counter
  delays,        \* the delays retryRequest waited, in order
  apiResult,     \* how the command ended: "none","ok","failed","reported"
  prevFile       \* the persisted auth section when the command started

rvars == <<resolved, outcome, settleLog, listener, closeCalls, pollTimer, clearCalls>>
svars == <<cmd, configAuth, file, file0>>
\* the state of a command using the API
avars == <<apc, ops, logouts, kind, prevKind, flagToken, envToken, evt, bearer, sent, attempt, delays,
           apiResult, prevFile>>
\* the state of a login attempt, but the session store
lvars == <<pc, challengeId, resolved, outcome, settleLog, listener, closeCalls,
           pollTimer, clearCalls, timer, browser, reqs, ticks, polling, failedPolls,
           errors, crashed, cmd, file0, rng, pkce>>
vars == <<flow, pc, challengeId, resolved, outcome, settleLog, listener, closeCalls,
          pollTimer, clearCalls, timer, browser, reqs, ticks, polling, failedPolls,
          errors, crashed, cmd, configAuth, file, file0, rng, pkce, now, apc, ops, logouts, kind, prevKind, flagToken,
          envToken, evt, bearer, sent, attempt, delays, apiResult, prevFile>>

Flows == {"pkce", "hub", "oauth"}

\* ---------------------------------------------------------------- values
\* an optional number that is not there: expires_at of a record, expires_in
\* of a token endpoint's answer
Absent == -1

\* !x of JavaScript for an optional number
Falsy(x) == x = Absent \/ x = 0

\* OAuthTokens; "" stands for an absent string field
NoTokens == [access_token |-> "", refresh_token |-> "", token_type |-> "",
             expires_at |-> Absent]

\* the token endpoint's answers to an authorization-code exchange:
\* expires_in (seconds) positive, zero, or not in the answer
TokenData == {[access_token |-> "AT1", refresh_token |-> "RT1", expires_in |-> 3600],
              [access_token |-> "AT2", refresh_token |-> "RT2", expires_in |-> 0],
              [access_token |-> "AT3", refresh_token |-> "RT3", expires_in |-> Absent]}

\* no answer of the token endpoint
NoData == [access_token |-> "", refresh_token |-> "", expires_in |-> Absent]

\* Date.now() when the process starts, in ms
StartTime == 1000000

\* the 5 minutes of the login timer (auth.ts:104), in ms
LoginTimeout == 300000

\* what a fetch of the token endpoint can end in
ExchangeResults == {"ok", "rejected", "network"}

\* what pollChallengeOnce can end in: tokens, null (non-OK or no tokens), a throw
PollResults == {"tokens", "null", "throw"}

\* what the fetch of challenge_status can end in: an OK answer with tokens, a
\* non-OK answer, an OK answer without tokens, a throw of fetch
PollFetches == {"tokens", "non_ok", "no_tokens", "throw"}

\* the session stored before the attempt: none, or an earlier login's
OldAuth == [access_token |-> "AT0", refresh_token |-> "RT0", token_type |-> "Bearer",
            expires_at |-> Absent]

Outcome(tag, info, tokens) == [tag |-> tag, info |-> info, tokens |-> tokens]
Pending == Outcome("pending", "", NoTokens)
Failure(tag, info) == Outcome(tag, info, NoTokens)
Success(tokens) == Outcome("tokens", "", tokens)

\* the error taxonomy read off the Error a flow rejects with
Kind(o) ==
  CASE o.tag = "pending" -> "pending"
    [] o.tag = "tokens" -> "tokens"
    [] o.tag \in {"Auth error", "OAuth error"} /\ o.info = "access_denied" -> "user_denied"
    [] o.tag \in {"Auth error", "OAuth error"} -> "provider_error"
    [] o.tag = "OAuth state mismatch" -> "state_mismatch"
    [] o.tag = "No authorization code" -> "missing_code"
    [] o.tag = "No authorization code received" -> "missing_code"
    [] o.tag = "Token exchange failed" -> "exchange_failed"
    [] o.tag = "fetch failed" -> "exchange_failed"
    [] o.tag = "Authentication timed out" -> "timeout"
    [] o.tag = "Authentication timeout" -> "timeout"
    [] o.tag = "server error" -> "listener_error"
    [] OTHER -> "other"

\* the state issued for this attempt (auth.ts:34) and the `state` values a
\* request can carry: the issued one, another one, none
IssuedState == "S1"
States == {"S1", "S2", ""}

\* the `error` values a request can carry; "" is no error parameter
Errors == {"", "access_denied", "server_error"}

Params(path, error, code, state, access_token) ==
  [path |-> path, error |-> error, code |-> code, state |-> state,
   access_token |-> access_token]

\* req.url of a request: "//" is a target new URL() rejects, "/other" any
\* path but /callback; a flow's requests vary the parameters the flow reads;
\* an error parameter comes alone or with a code and the issued state
Requests(f) ==
  {Params("//", "", FALSE, "", FALSE), Params("/other", "", FALSE, "", FALSE)}
  \cup (IF f = "hub"
        THEN {Params("/callback", e, FALSE, "", a) : e \in Errors, a \in BOOLEAN}
        ELSE {Params("/callback", "", c, s, FALSE) : c \in BOOLEAN, s \in States}
             \cup {Params("/callback", e, FALSE, "", FALSE) : e \in Errors \ {""}}
             \cup {Params("/callback", e, TRUE, IssuedState, FALSE) : e \in Errors \ {""}})

\* a request and the state of its handler:
\*   late        the flag resolved was set when the request arrived
\*   pcq         "exchanging" (awaiting the token endpoint), "polling"
\*               (awaiting pollChallengeOnce), "finished"
\*   response    what was written to res: "none", "empty", "404",
\*               "failure_page", "success_page", "waiting_page"
\*   xcount      requests this handler sent to the token endpoint
\*   checks      challenge_status requests this handler sent
\*   xres        how its exchange ended: "none", or one of ExchangeResults
\*   sawPending  the promise was pending when its exchange ended
\*   data, at    the token endpoint's answer and Date.now() when it came,
\*               kept of the exchange that ended on a pending promise
\*   verifier    the code_verifier of its token request (auth.ts:87,124;
\*               part_003:394,547), "" when it sent none
Handler(p, late, pcq, response, xcount, checks) ==
  [p |-> p, late |-> late, pcq |-> pcq, response |-> response,
   xcount |-> xcount, checks |-> checks, xres |-> "none", sawPending |-> FALSE,
   data |-> NoData, at |-> 0,
   verifier |-> IF xcount > 0 THEN pkce.verifier ELSE ""]

\* ------------------------------------------------------ the primitives
\* server.close()
ServerClose ==
  /\ listener' = "closed"
  /\ closeCalls' = closeCalls + 1

\* clearInterval(pollTimer)
ClearInterval ==
  /\ pollTimer' = "cleared"
  /\ clearCalls' = clearCalls + 1

\* resolve(tokens) / reject(err) of the promise Login returns: the first
\* call settles it, later calls are ignored by the promise
Settle(o) ==
  /\ settleLog' = Append(settleLog, o)
  /\ outcome' = IF outcome = Pending THEN o ELSE outcome

\* -------------------------------------------- the resolution routines
\* finish without its `if (done) return`
finishUnguarded(o) ==
  /\ resolved' = TRUE
  /\ ServerClose
  /\ Settle(o)
  /\ UNCHANGED <<pollTimer, clearCalls>>

\* pkce, auth.ts:48-53
finish(o) ==
  IF resolved
  THEN UNCHANGED rvars
  ELSE /\ resolved' = TRUE
       /\ ServerClose
       /\ Settle(o)
       /\ UNCHANGED <<pollTimer, clearCalls>>

\* hub, part_003:71-78
done(o) ==
  IF resolved
  THEN UNCHANGED rvars
  ELSE /\ resolved' = TRUE
       /\ ClearInterval
       /\ ServerClose
       /\ Settle(o)

\* oauth, part_003:412-414 (after a successful exchange)
oauthResolve(o) ==
  /\ resolved' = TRUE
  /\ ServerClose
  /\ Settle(o)
  /\ UNCHANGED <<pollTimer, clearCalls>>

\* oauth, part_003:420-424 (the handler's catch)
oauthCatch(o) ==
  /\ resolved' = TRUE
  /\ ServerClose
  /\ Settle(o)
  /\ UNCHANGED <<pollTimer, clearCalls>>

\* oauth, part_003:427-432 (server.on('error')); a failed bind leaves the
\* server not listening, an accept error leaves it listening
oauthOnError(o) ==
  /\ listener' = IF listener = "binding" THEN "failed" ELSE listener
  /\ IF resolved
     THEN UNCHANGED <<resolved, outcome, settleLog>>
     ELSE resolved' = TRUE /\ Settle(o)
  /\ UNCHANGED <<closeCalls, pollTimer, clearCalls>>

\* oauth, part_003:435-441 (the timeout)
oauthTimeout(o) ==
  IF resolved
  THEN UNCHANGED rvars
  ELSE /\ resolved' = TRUE
       /\ ServerClose
       /\ Settle(o)
       /\ UNCHANGED <<pollTimer, clearCalls>>

\* the tokens built from the token endpoint's answer
\* (auth.ts:133-140, part_003:556-573)
exchangeCode(d) ==
  [access_token |-> d.access_token, refresh_token |-> d.refresh_token,
   token_type |-> "Bearer",
   expires_at |-> IF Falsy(d.expires_in) THEN Absent ELSE now + d.expires_in * 1000]

\* the tokens pollChallengeOnce returns (part_003:174-182)
PollTokens == [access_token |-> "ATp", refresh_token |-> "RTp", token_type |-> "Bearer",
               expires_at |-> Absent]

\* the tokens read from the callback URL (hub, part_003:97-101)
UrlTokens == [access_token |-> "ATu", refresh_token |-> "RTu", token_type |-> "Bearer",
               expires_at |-> Absent]

\* the tokens of initData.auth_tokens (part_003:49-55, 482-490)
InitTokens == [access_token |-> "ATi", refresh_token |-> "RTi", token_type |-> "Bearer",
               expires_at |-> Absent]

\* the process is running: no unhandled rejection, no process.exit(1)
Alive == ~crashed /\ cmd # "exited"

\* ------------------------------------------------------------------ PKCE
\* the draws of randomBytes: the code draws 32 bytes (auth.ts:32,
\* part_003:640), the model 2, which pad in base64 as 32 do
Draws == {<<255, 255>>, <<251, 240>>}
FirstDraw == <<255, 255>>

\* the alphabet of Buffer.toString('base64')
Base64Chars ==
  <<"A", "B", "C", "D", "E", "F", "G", "H", "I", "J", "K", "L", "M", "N", "O", "P",
    "Q", "R", "S", "T", "U", "V", "W", "X", "Y", "Z", "a", "b", "c", "d", "e", "f",
    "g", "h", "i", "j", "k", "l", "m", "n", "o", "p", "q", "r", "s", "t", "u", "v",
    "w", "x", "y", "z", "0", "1", "2", "3", "4", "5", "6", "7", "8", "9", "+", "/">>

\* Buffer.from(buf).toString('base64'), as the sequence of its characters
RECURSIVE toBase64(_)
toBase64(buf) ==
  IF Len(buf) = 0 THEN <<>>
  ELSE IF Len(buf) = 1
  THEN <<Base64Chars[(buf[1] \div 4) + 1], Base64Chars[(buf[1] % 4) * 16 + 1], "=", "=">>
  ELSE IF Len(buf) = 2
  THEN <<Base64Chars[(buf[1] \div 4) + 1],
         Base64Chars[(buf[1] % 4) * 16 + (buf[2] \div 16) + 1],
         Base64Chars[(buf[2] % 16) * 4 + 1], "=">>
  ELSE <<Base64Chars[(buf[1] \div 4) + 1],
         Base64Chars[(buf[1] % 4) * 16 + (buf[2] \div 16) + 1],
         Base64Chars[(buf[2] % 16) * 4 + (buf[3] \div 64) + 1],
         Base64Chars[(buf[3] % 64) + 1]>> \o toBase64(SubSeq(buf, 4, Len(buf)))

\* String.replace(/from/g, to) on a sequence of characters
replace(chars, from, to) ==
  [i \in 1..Len(chars) |-> IF chars[i] = from THEN to ELSE chars[i]]

\* the string of a sequence of characters
RECURSIVE join(_)
join(chars) == IF chars = <<>> THEN "" ELSE Head(chars) \o join(Tail(chars))

\* base64url (auth.ts:213-219), base64URLEncode (part_003:655-661)
base64url(buf) ==
  join(replace(replace(replace(toBase64(buf), "+", "-"), "/", "_"), "=", ""))

\* createHash('sha256').update(str).digest(): SHA-256 is not computed; the
\* digest is a table that gives the verifiers of Draws different digests
sha256(str) ==
  IF str = base64url(<<255, 255>>) THEN <<3, 224>>
  ELSE IF str = base64url(<<251, 240>>) THEN <<190, 17>>
  ELSE <<0, 0>>

\* a code challenge that is the verifier itself (method plain)
generateCodeChallengePlain(codeVerifier) == codeVerifier

\* auth.ts:33, generateCodeChallenge (part_003:647-650)
generateCodeChallenge(codeVerifier) == base64url(sha256(codeVerifier))

\* no PKCE material yet; challenge and state are the code_challenge and
\* state parameters of the authorization URL
NoPkce == [verifier |-> "", challenge |-> "", state |-> ""]

\* auth.ts:32-34, 42-43; part_003:340-342, 350-351
generatePkce(bytes) ==
  [verifier |-> base64url(bytes),
   challenge |-> generateCodeChallenge(base64url(bytes)),
   state |-> IssuedState]

\* ------------------------------------------------ values of a command
\* the 5 minute buffer of ensureValidToken (auth.ts:181), in ms
Skew == 300000

\* retries = 3 of retryRequest (api-client.ts:79)
Retries == 3

\* no call of ensureValidToken:
\*   status        "none", "awaiting" (the refresh), "returned", "threw"
\*   token         the access token returned
\*   error         the message of the Error thrown
\*   refreshCalls  requests sent to the refresh endpoint
\*   refreshWith   the refresh token of the last of them
\*   auth, at      config.getAuth() and Date.now() as the call read them
\*   tokens        what refreshAccessToken returned
\*   data          the refresh endpoint's answer it was built from
NoCall == [status |-> "none", token |-> "", error |-> "", refreshCalls |-> 0,
           refreshWith |-> "", auth |-> NoTokens, at |-> 0, tokens |-> NoTokens,
           data |-> NoData]

\* how a command ended: exit "none","ok","failed","reported"; status is the
\* HTTP status of the last response, 0 when there was none
Result(exit, status) == [exit |-> exit, status |-> status]

\* the sessions a command can find stored: none; a bearer token stored by
\* `auth login --token`; a login's record without expiry; records that
\* expire 1 minute ago, in 4, 5 and 10 minutes; an expiring record without
\* refresh token
StoredRecords ==
  {NoTokens,
   [access_token |-> "AT0", refresh_token |-> "", token_type |-> "Bearer",
    expires_at |-> Absent],
   [access_token |-> "AT0", refresh_token |-> "RT0", token_type |-> "Bearer",
    expires_at |-> Absent],
   [access_token |-> "AT0", refresh_token |-> "", token_type |-> "Bearer",
    expires_at |-> StartTime + 240000]}
  \cup {[access_token |-> "AT0", refresh_token |-> "RT0", token_type |-> "Bearer",
          expires_at |-> StartTime + e] : e \in {-60000, 240000, 300000, 600000}}

\* the refresh endpoint's answers: a rotated refresh token with expires_in,
\* no new refresh token and no expires_in, expires_in zero
RefreshData == {[access_token |-> "ATn", refresh_token |-> "RTn", expires_in |-> 3600],
                [access_token |-> "ATn", refresh_token |-> "", expires_in |-> Absent],
                [access_token |-> "ATm", refresh_token |-> "RTm", expires_in |-> 0]}

\* the Retry-After header of a 429: none, a number of seconds, an HTTP date
RetryAfters == {"", "2", "date"}

\* what a fetch of the API can end in: an HTTP status with its Retry-After
\* header, or a network error (status 0)
Responses ==
  {[status |-> st, retryAfter |-> ""] : st \in {0, 200, 401, 500}}
  \cup {[status |-> 429, retryAfter |-> ra] : ra \in RetryAfters}

\* the time that passes between two commands, in ms; the first command
\* runs at StartTime
Pauses == {0, 360000}

\* ---------------------------------------------------------------- Init
Init ==
  /\ flow \in Flows
  /\ pc = "pre"
  /\ challengeId = FALSE
  /\ resolved = FALSE
  /\ outcome = Pending
  /\ settleLog = <<>>
  /\ listener = "none"
  /\ closeCalls = 0
  /\ pollTimer = "none"
  /\ clearCalls = 0
  /\ timer = "none"
  /\ browser = "none"
  /\ reqs = <<>>
  /\ ticks = 0
  /\ polling = 0
  /\ failedPolls = 0
  /\ errors = 0
  /\ crashed = FALSE
  /\ cmd = "awaiting"
  /\ configAuth \in {NoTokens, OldAuth}
  /\ file = configAuth
  /\ file0 = configAuth
  /\ rng = FirstDraw
  /\ pkce = NoPkce
  /\ now = StartTime
  /\ apc = "idle"
  /\ ops = 0
  /\ logouts = 0
  /\ kind = "none"
  /\ prevKind = "none"
  /\ flagToken = ""
  /\ envToken = ""
  /\ evt = NoCall
  /\ bearer = ""
  /\ sent = 0
  /\ attempt = 0
  /\ delays = <<>>
  /\ apiResult = Result("none", 0)
  /\ prevFile = configAuth

\* ------------------------------------------- before the callback server
\* what makes Login reject before the server exists: getRandomPort rejects
\* (auth.ts:28,209); hub: /hub/auth/init fails (part_003:29-44); oauth:
\* discovery fails and the hub fallback rejects (part_003:321-326, 476-501)
PreFailures(f) ==
  {Failure("port probe failed", "")}
  \cup (IF f = "hub" THEN {Failure("Auth init failed", "")} ELSE {})
  \cup (IF f = "oauth"
        THEN {Failure("Auth init failed", ""), Failure("Hub flow not implemented", "")}
        ELSE {})

PreFail ==
  /\ Alive /\ pc = "pre"
  /\ \E o \in PreFailures(flow) : Settle(o)
  /\ pc' = "early"
  /\ UNCHANGED <<now, avars, rng, pkce, failedPolls, flow, challengeId, resolved, listener, closeCalls, pollTimer,
                 clearCalls, timer, browser, reqs, ticks, polling, errors,
                 crashed, svars>>

\* hub: /hub/auth/init answers with tokens (part_003:49-55); oauth: the hub
\* fallback's init answers with tokens (part_003:482-490)
PreTokens ==
  /\ Alive /\ pc = "pre"
  /\ flow \in {"hub", "oauth"}
  /\ Settle(Success(InitTokens))
  /\ pc' = "early"
  /\ UNCHANGED <<now, avars, rng, pkce, failedPolls, flow, challengeId, resolved, listener, closeCalls, pollTimer,
                 clearCalls, timer, browser, reqs, ticks, polling, errors,
                 crashed, svars>>

\* the PKCE material and the promise executor: createServer, server.listen,
\* the poll interval, setTimeout (auth.ts:32-105, part_003:69-159,
\* part_003:332-442)
Begin ==
  /\ Alive /\ pc = "pre"
  /\ pc' = "racing"
  /\ pkce' = IF flow = "pkce" THEN generatePkce(rng) ELSE pkce
  /\ listener' = "binding"
  /\ timer' = "armed"
  /\ challengeId' \in (IF flow = "hub" THEN BOOLEAN ELSE {FALSE})
  /\ pollTimer' = IF flow # "hub" THEN "none"
                  ELSE IF challengeId' THEN "active" ELSE "noop"
  /\ UNCHANGED <<now, avars, rng, failedPolls, flow, resolved, outcome, settleLog, closeCalls, clearCalls,
                 browser, reqs, ticks, polling, errors, crashed, svars>>

\* ------------------------------------------------- the callback server
\* a listen callback that gives the attempt up when the browser cannot be
\* opened
ListenOkAborts ==
  /\ Alive /\ pc = "racing"
  /\ listener = "binding"
  /\ pkce' = IF flow = "oauth" THEN generatePkce(rng) ELSE pkce
  /\ browser' \in (IF flow = "hub" THEN {"url_printed"} ELSE {"opened", "url_printed"})
  /\ IF flow # "hub" /\ browser' = "url_printed"
     THEN /\ resolved' = TRUE
          /\ ServerClose
          /\ Settle(Failure("Could not open browser", ""))
     ELSE /\ listener' = "listening"
          /\ UNCHANGED <<resolved, outcome, settleLog, closeCalls>>
  /\ UNCHANGED <<now, avars, rng, failedPolls, flow, pc, challengeId,
                 pollTimer, clearCalls, timer, reqs, ticks, polling, errors,
                 crashed, svars>>

\* server.listen's callback: the browser is opened, or the URL printed when
\* open() rejects (auth.ts:96-101, part_003:335-366); hub prints only
\* (part_003:125-140)
ListenOk ==
  /\ Alive /\ pc = "racing"
  /\ listener = "binding"
  /\ listener' = "listening"
  /\ pkce' = IF flow = "oauth" THEN generatePkce(rng) ELSE pkce
  /\ browser' \in (IF flow = "hub" THEN {"url_printed"} ELSE {"opened", "url_printed"})
  /\ UNCHANGED <<now, avars, rng, failedPolls, flow, pc, challengeId, resolved, outcome, settleLog, closeCalls,
                 pollTimer, clearCalls, timer, reqs, ticks, polling, errors,
                 crashed, svars>>

\* an 'error' handler that resolves nothing
ListenerErrorUnheard ==
  /\ Alive /\ pc = "racing"
  /\ errors < MaxErrors
  /\ listener \in {"binding", "listening"}
  /\ errors' = errors + 1
  /\ listener' = IF listener = "binding" THEN "failed" ELSE listener
  /\ UNCHANGED <<resolved, outcome, settleLog, closeCalls, pollTimer, clearCalls>>
  /\ UNCHANGED <<now, avars, rng, pkce, failedPolls, flow, pc, challengeId, timer, browser, reqs, ticks, polling,
                 crashed, svars>>

\* the server's 'error' event: the bind failed, or an accept failed while
\* listening (auth.ts:103, part_003:158, part_003:427-432)
ListenerError ==
  /\ Alive /\ pc = "racing"
  /\ errors < MaxErrors
  /\ listener \in {"binding", "listening"}
  /\ errors' = errors + 1
  /\ CASE flow = "pkce" -> finish(Failure("server error", ""))
       [] flow = "hub" -> done(Failure("server error", ""))
       [] flow = "oauth" -> oauthOnError(Failure("server error", ""))
  /\ UNCHANGED <<now, avars, rng, pkce, failedPolls, flow, pc, challengeId, timer, browser, reqs, ticks, polling,
                 crashed, svars>>

\* a timer whose callback resolves nothing
DeadlineLost ==
  /\ Alive /\ pc = "racing"
  /\ timer = "armed"
  /\ timer' = "fired"
  /\ now' = now + LoginTimeout
  /\ UNCHANGED <<avars, rng, pkce, failedPolls, flow, pc, challengeId, rvars, browser, reqs, ticks, polling,
                 errors, crashed, svars>>

\* the 5 minute timer fires (auth.ts:104, part_003:157, part_003:435-441)
Deadline ==
  /\ Alive /\ pc = "racing"
  /\ timer = "armed"
  /\ timer' = "fired"
  /\ now' = now + LoginTimeout
  /\ CASE flow = "pkce" -> finish(Failure("Authentication timed out", ""))
       [] flow = "hub" -> done(Failure("Authentication timed out", ""))
       [] flow = "oauth" -> oauthTimeout(Failure("Authentication timeout", ""))
  /\ UNCHANGED <<avars, rng, pkce, failedPolls, flow, pc, challengeId, browser, reqs, ticks, polling, errors,
                 crashed, svars>>

\* the handler's answer to request p is recorded
Answer(p, late, pcq, response, xcount, checks) ==
  reqs' = Append(reqs, Handler(p, late, pcq, response, xcount, checks))

\* pkce: the request handler up to its await (auth.ts:55-87)
pkceRequest(p) ==
  IF resolved THEN
    /\ Answer(p, TRUE, "finished", "empty", 0, 0)
    /\ UNCHANGED <<rvars, crashed>>
  ELSE IF p.path = "//" THEN
    /\ Answer(p, FALSE, "finished", "none", 0, 0)
    /\ crashed' = TRUE
    /\ UNCHANGED rvars
  ELSE IF p.path # "/callback" THEN
    /\ Answer(p, FALSE, "finished", "404", 0, 0)
    /\ UNCHANGED <<rvars, crashed>>
  ELSE IF p.error # "" THEN
    /\ Answer(p, FALSE, "finished", "failure_page", 0, 0)
    /\ finish(Failure("Auth error", p.error))
    /\ UNCHANGED crashed
  ELSE IF p.state # IssuedState THEN
    /\ Answer(p, FALSE, "finished", "failure_page", 0, 0)
    /\ finish(Failure("OAuth state mismatch", ""))
    /\ UNCHANGED crashed
  ELSE IF ~p.code THEN
    /\ Answer(p, FALSE, "finished", "failure_page", 0, 0)
    /\ finish(Failure("No authorization code", ""))
    /\ UNCHANGED crashed
  ELSE
    /\ Answer(p, FALSE, "exchanging", "none", 1, 0)
    /\ UNCHANGED <<rvars, crashed>>

\* hub: the request handler up to its await (part_003:80-108)
hubRequest(p) ==
  IF resolved THEN
    /\ Answer(p, TRUE, "finished", "empty", 0, 0)
    /\ UNCHANGED <<rvars, crashed>>
  ELSE IF p.path = "//" THEN
    /\ Answer(p, FALSE, "finished", "none", 0, 0)
    /\ crashed' = TRUE
    /\ UNCHANGED rvars
  ELSE IF p.path # "/callback" THEN
    /\ Answer(p, FALSE, "finished", "404", 0, 0)
    /\ UNCHANGED <<rvars, crashed>>
  ELSE IF p.error # "" THEN
    /\ Answer(p, FALSE, "finished", "failure_page", 0, 0)
    /\ done(Failure("Auth error", p.error))
    /\ UNCHANGED crashed
  ELSE IF p.access_token THEN
    /\ Answer(p, FALSE, "finished", "success_page", 0, 0)
    /\ done(Success(UrlTokens))
    /\ UNCHANGED crashed
  ELSE IF challengeId THEN
    /\ Answer(p, FALSE, "polling", "none", 0, 1)
    /\ UNCHANGED <<rvars, crashed>>
  ELSE
    /\ Answer(p, FALSE, "finished", "waiting_page", 0, 0)
    /\ UNCHANGED <<rvars, crashed>>

\* oauth: the request handler up to its await (part_003:368-396, 416-424);
\* the returned state is read (376) and never compared
oauthRequest(p) ==
  IF resolved THEN
    /\ Answer(p, TRUE, "finished", "none", 0, 0)
    /\ UNCHANGED <<rvars, crashed>>
  ELSE IF p.path = "//" THEN
    /\ Answer(p, FALSE, "finished", "none", 0, 0)
    /\ oauthCatch(Failure("Invalid URL", ""))
    /\ UNCHANGED crashed
  ELSE IF p.path # "/callback" THEN
    /\ Answer(p, FALSE, "finished", "404", 0, 0)
    /\ UNCHANGED <<rvars, crashed>>
  ELSE IF p.error # "" THEN
    /\ Answer(p, FALSE, "finished", "none", 0, 0)
    /\ oauthCatch(Failure("OAuth error", p.error))
    /\ UNCHANGED crashed
  ELSE IF ~p.code THEN
    /\ Answer(p, FALSE, "finished", "none", 0, 0)
    /\ oauthCatch(Failure("No authorization code received", ""))
    /\ UNCHANGED crashed
  ELSE
    /\ Answer(p, FALSE, "exchanging", "none", 1, 0)
    /\ UNCHANGED <<rvars, crashed>>

\* a request can reach the handler while the server listens, and after
\* server.close() on a connection accepted before it (keep-alive)
CanReach == listener = "listening" \/ (listener = "closed" /\ Len(reqs) > 0)

\* a request arrives
Receive ==
  /\ Alive /\ pc = "racing"
  /\ CanReach
  /\ Len(reqs) < MaxRequests
  /\ \E p \in Requests(flow) :
       CASE flow = "pkce" -> pkceRequest(p)
         [] flow = "hub" -> hubRequest(p)
         [] flow = "oauth" -> oauthRequest(p)
  /\ UNCHANGED <<now, avars, rng, pkce, failedPolls, flow, pc, challengeId, timer, browser, ticks, polling, errors, svars>>

\* the handler of request i resumes after its fetch
Resume(i, response, xres, d) ==
  reqs' = [reqs EXCEPT ![i] = [@ EXCEPT !.pcq = "finished", !.response = response,
                                        !.xres = xres,
                                        !.sawPending = (outcome = Pending),
                                        !.data = IF outcome = Pending THEN d ELSE NoData,
                                        !.at = IF outcome = Pending THEN now ELSE 0]]

\* the token endpoint answers OK (auth.ts:87-89, part_003:390-414)
ExchangeOk ==
  /\ Alive
  /\ \E i \in 1..Len(reqs), d \in TokenData :
       /\ reqs[i].pcq = "exchanging"
       /\ Resume(i, "success_page", "ok", d)
       /\ CASE flow = "pkce" -> finish(Success(exchangeCode(d)))
            [] flow = "oauth" -> oauthResolve(Success(exchangeCode(d)))
  /\ UNCHANGED <<now, avars, rng, pkce, failedPolls, flow, pc, challengeId, timer, browser, ticks, polling, errors,
                 crashed, svars>>

\* the Error exchangeCode throws: the endpoint's rejection (auth.ts:128-131,
\* part_003:551-554) or fetch's own
ExchangeError(r) ==
  IF r = "rejected" THEN Failure("Token exchange failed", "") ELSE Failure("fetch failed", "")

\* a handler that sends the code again when the fetch itself failed
ExchangeFailRetries ==
  /\ Alive
  /\ \E i \in 1..Len(reqs) :
       /\ reqs[i].pcq = "exchanging"
       /\ reqs[i].xcount < 2
       /\ reqs' = [reqs EXCEPT ![i] = [@ EXCEPT !.xcount = @ + 1]]
  /\ UNCHANGED <<now, avars, rng, pkce, failedPolls, flow, pc, challengeId, rvars, timer, browser, ticks, polling,
                 errors, crashed, svars>>

\* the token endpoint rejects, or the fetch fails (auth.ts:90-93,
\* part_003:420-424)
ExchangeFail ==
  /\ Alive
  /\ \E i \in 1..Len(reqs), r \in ExchangeResults \ {"ok"} :
       /\ reqs[i].pcq = "exchanging"
       /\ CASE flow = "pkce" ->
                 /\ Resume(i, "failure_page", r, NoData)
                 /\ finish(ExchangeError(r))
            [] flow = "oauth" ->
                 /\ Resume(i, "none", r, NoData)
                 /\ oauthCatch(ExchangeError(r))
  /\ UNCHANGED <<now, avars, rng, pkce, failedPolls, flow, pc, challengeId, timer, browser, ticks, polling, errors,
                 crashed, svars>>

\* hub: the handler's pollChallengeOnce ends (part_003:106-118)
CallbackPollDone ==
  /\ Alive
  /\ \E i \in 1..Len(reqs), r \in PollResults :
       /\ reqs[i].pcq = "polling"
       /\ IF r = "tokens"
          THEN /\ Resume(i, "success_page", "none", NoData)
               /\ done(Success(PollTokens))
          ELSE /\ Resume(i, "waiting_page", "none", NoData)
               /\ UNCHANGED rvars
  /\ UNCHANGED <<now, avars, rng, pkce, failedPolls, flow, pc, challengeId, timer, browser, ticks, polling, errors,
                 crashed, svars>>

\* ------------------------------------------------------------ the poller
\* hub: the 3 second interval fires (part_003:145-148)
Tick ==
  /\ Alive /\ pc = "racing"
  /\ pollTimer = "active"
  /\ ticks < MaxTicks
  /\ ticks' = ticks + 1
  /\ polling' = IF resolved THEN polling ELSE polling + 1
  /\ UNCHANGED <<now, avars, rng, pkce, failedPolls, flow, pc, challengeId, rvars, timer, browser, reqs, errors,
                 crashed, svars>>

\* what pollChallengeOnce makes of its fetch (part_003:162-184): tokens, null
\* (a non-OK answer, or an answer without access_token), or a throw
pollChallengeOnce(r) ==
  CASE r = "tokens" -> "tokens"
    [] r \in {"non_ok", "no_tokens"} -> "null"
    [] r = "throw" -> "throw"

\* a tick whose failed status check ends the polling
PollDoneStops ==
  /\ Alive
  /\ polling > 0
  /\ polling' = polling - 1
  /\ \E r \in PollFetches :
       /\ failedPolls' = failedPolls + (IF pollChallengeOnce(r) = "tokens" THEN 0 ELSE 1)
       /\ IF pollChallengeOnce(r) = "tokens" THEN done(Success(PollTokens))
          ELSE IF pollChallengeOnce(r) = "throw"
          THEN /\ pollTimer' = "cleared"
               /\ UNCHANGED <<resolved, outcome, settleLog, listener, closeCalls, clearCalls>>
          ELSE UNCHANGED rvars
  /\ UNCHANGED <<now, avars, rng, pkce, flow, pc, challengeId, timer, browser, reqs, ticks, errors,
                 crashed, svars>>

\* hub: a tick's pollChallengeOnce ends (part_003:148-150)
PollDone ==
  /\ Alive
  /\ polling > 0
  /\ polling' = polling - 1
  /\ \E r \in PollFetches :
       /\ failedPolls' = failedPolls + (IF pollChallengeOnce(r) = "tokens" THEN 0 ELSE 1)
       /\ IF pollChallengeOnce(r) = "tokens" THEN done(Success(PollTokens))
          ELSE UNCHANGED rvars
  /\ UNCHANGED <<now, avars, rng, pkce, flow, pc, challengeId, timer, browser, reqs, ticks, errors,
                 crashed, svars>>

\* ------------------------------------------------------ the login command
\* config.setAuth of the login action (commands/auth.ts:60-66)
setAuth(tokens) ==
  [access_token |-> tokens.access_token, refresh_token |-> tokens.refresh_token,
   token_type |-> IF tokens.token_type = "" THEN "Bearer" ELSE tokens.token_type,
   expires_at |-> tokens.expires_at]

\* a command that stores whatever the login ended in
CommandStoreAnyOutcome ==
  /\ Alive
  /\ cmd = "awaiting"
  /\ outcome # Pending
  /\ configAuth' = setAuth(outcome.tokens)
  /\ file' = configAuth'
  /\ cmd' = "stored"
  /\ UNCHANGED <<now, avars, rng, pkce, failedPolls, flow, pc, challengeId, rvars, timer, browser, reqs, ticks,
                 polling, errors, crashed, file0>>

\* the await of the login resolves: the tokens are stored and saved
\* (commands/auth.ts:57-67)
CommandStore ==
  /\ Alive
  /\ cmd = "awaiting"
  /\ outcome.tag = "tokens"
  /\ configAuth' = setAuth(outcome.tokens)
  /\ file' = configAuth'
  /\ cmd' = "stored"
  /\ UNCHANGED <<now, avars, rng, pkce, failedPolls, flow, pc, challengeId, rvars, timer, browser, reqs, ticks,
                 polling, errors, crashed, file0>>

\* the await of the login throws: the message is printed and the process
\* exits with status 1 (commands/auth.ts:82-116)
CommandFail ==
  /\ Alive
  /\ cmd = "awaiting"
  /\ outcome.tag \notin {"pending", "tokens"}
  /\ cmd' = "exited"
  /\ UNCHANGED <<now, avars, rng, pkce, failedPolls, flow, pc, challengeId, rvars, timer, browser, reqs, ticks,
                 polling, errors, crashed, configAuth, file, file0>>

\* ------------------------------------------------- the session store
\* the Errors ensureValidToken throws, by the version of lib/auth
\* (auth.ts:178,186; part_003:219,228; part_003:670,680,699)
NotAuthenticatedError(f) ==
  IF f = "oauth" THEN "No access token available" ELSE "Not authenticated"

ExpiredError(f) ==
  IF f = "oauth" THEN "Access token expired and no refresh token available"
  ELSE "Token expired"

\* r is "rejected" (a non-OK answer) or "network" (fetch throws); the oauth
\* version wraps either (part_003:698-700)
RefreshError(f, r) ==
  IF f = "oauth" THEN "Failed to refresh token"
  ELSE IF r = "rejected" THEN "Token refresh failed" ELSE "fetch failed"

\* the error taxonomy read off the Error ensureValidToken throws
TokenKind(e) ==
  CASE e \in {"Not authenticated", "No access token available"} -> "not_authenticated"
    [] e \in {"Token expired", "Access token expired and no refresh token available"}
         -> "session_expired"
    [] e \in {"Token refresh failed", "fetch failed", "Failed to refresh token"}
         -> "session_expired"
    [] OTHER -> "none"

\* the record refreshAccessToken builds from the endpoint's answer d
\* (auth.ts:162-169, part_003:596-612); the hub version sets no expires_at
\* (part_003:204-210)
refreshAccessToken(f, refreshToken, d) ==
  [access_token |-> d.access_token,
   refresh_token |-> IF d.refresh_token = "" THEN refreshToken ELSE d.refresh_token,
   token_type |-> "Bearer",
   expires_at |-> IF f = "hub" \/ Falsy(d.expires_in) THEN Absent
                  ELSE now + d.expires_in * 1000]

\* ensureValidToken with a buffer of 10 minutes
ensureValidTokenEager(f, auth, t) ==
  LET call == [NoCall EXCEPT !.auth = auth, !.at = t] IN
  IF auth.access_token = ""
  THEN [call EXCEPT !.status = "threw", !.error = NotAuthenticatedError(f)]
  ELSE IF Falsy(auth.expires_at) \/ auth.expires_at > t + 2 * Skew
  THEN [call EXCEPT !.status = "returned", !.token = auth.access_token]
  ELSE IF auth.refresh_token = ""
  THEN [call EXCEPT !.status = "threw", !.error = ExpiredError(f)]
  ELSE [call EXCEPT !.status = "awaiting", !.refreshCalls = 1,
                    !.refreshWith = auth.refresh_token]

\* ensureValidToken with a token that expires in exactly 5 minutes counted
\* as still valid
ensureValidTokenLate(f, auth, t) ==
  LET call == [NoCall EXCEPT !.auth = auth, !.at = t] IN
  IF auth.access_token = ""
  THEN [call EXCEPT !.status = "threw", !.error = NotAuthenticatedError(f)]
  ELSE IF Falsy(auth.expires_at) \/ auth.expires_at >= t + Skew
  THEN [call EXCEPT !.status = "returned", !.token = auth.access_token]
  ELSE IF auth.refresh_token = ""
  THEN [call EXCEPT !.status = "threw", !.error = ExpiredError(f)]
  ELSE [call EXCEPT !.status = "awaiting", !.refreshCalls = 1,
                    !.refreshWith = auth.refresh_token]

\* ensureValidToken up to its await (auth.ts:175-189, part_003:216-231,
\* part_003:666-685) with config.getAuth() = auth and Date.now() = t
ensureValidToken(f, auth, t) ==
  LET call == [NoCall EXCEPT !.auth = auth, !.at = t] IN
  IF auth.access_token = ""
  THEN [call EXCEPT !.status = "threw", !.error = NotAuthenticatedError(f)]
  ELSE IF Falsy(auth.expires_at) \/ auth.expires_at > t + Skew
  THEN [call EXCEPT !.status = "returned", !.token = auth.access_token]
  ELSE IF auth.refresh_token = ""
  THEN [call EXCEPT !.status = "threw", !.error = ExpiredError(f)]
  ELSE [call EXCEPT !.status = "awaiting", !.refreshCalls = 1,
                    !.refreshWith = auth.refresh_token]

\* ------------------------------------------------------ the API client
\* options.token of a command's action: the commands that use the API
\* declare no --token option (part_001:11-18, commands/auth.ts:135-138), so
\* the global flag (part_002:20) is not among their options; the preAction
\* hook copies it to process.env.CLI_TOKEN (part_002:24-27), which nothing
\* reads
optionsToken(k, flag) == ""

\* authOptions of the ApiClient a command makes: { token: options.token }
\* (part_001:18), none for status (commands/auth.ts:171)
authOptionsToken(k, flag) ==
  IF k = "status" THEN "" ELSE optionsToken(k, flag)

\* getAuthHeaders up to the await of the refresh (api-client.ts:15-39):
\*   call   the call of ensureValidToken it made, NoCall if none
\*   token  the bearer it chose, "" if none (yet)
\*   next   "fetch" (headers returned), "refresh" (awaiting the refresh),
\*          "throw" (no authentication method)
\* A throw of ensureValidToken is caught and the stored token used (27-33).
getAuthHeaders(k, flag, env, auth, t) ==
  LET first == IF authOptionsToken(k, flag) # "" THEN authOptionsToken(k, flag) ELSE env
      call == ensureValidToken(flow, auth, t)
  IN IF first # ""
     THEN [call |-> NoCall, token |-> first, next |-> "fetch"]
     ELSE IF call.status = "awaiting"
     THEN [call |-> call, token |-> "", next |-> "refresh"]
     ELSE IF call.status = "returned"
     THEN [call |-> call, token |-> call.token, next |-> "fetch"]
     ELSE IF auth.access_token # ""
     THEN [call |-> call, token |-> auth.access_token, next |-> "fetch"]
     ELSE [call |-> call, token |-> "", next |-> "throw"]

\* the commands leave the login attempt alone
Frame == UNCHANGED <<flow, lvars>>

\* a process starts (ConfigManager.load, config.ts:12-34) and runs a resource
\* command (part_001:16-27) or `auth status` (commands/auth.ts:138-189) up to
\* its first await; status without a stored token sends nothing (144-168)
RunCommand ==
  /\ apc \in {"idle", "done"}
  /\ ops < MaxOps
  /\ \E k \in {"resource", "status"}, flag \in {"", "TF"}, env \in {"", "TE"},
        dt \in (IF ops + logouts = 0 THEN {0} ELSE Pauses) :
       LET h == getAuthHeaders(k, flag, env, file, now + dt) IN
       /\ kind' = k /\ flagToken' = flag /\ envToken' = env
       /\ now' = now + dt
       /\ IF k = "status" /\ file.access_token = ""
          THEN /\ evt' = NoCall /\ bearer' = "" /\ sent' = 0
               /\ apc' = "done"
               /\ apiResult' = Result("reported", 0)
          ELSE /\ evt' = h.call /\ bearer' = h.token
               /\ sent' = IF h.next = "fetch" THEN 1 ELSE 0
               /\ apc' = CASE h.next = "fetch" -> "requesting"
                           [] h.next = "refresh" -> "refreshing"
                           [] h.next = "throw" -> "done"
               /\ apiResult' = IF h.next = "throw" THEN Result("failed", 0)
                               ELSE Result("none", 0)
  /\ ops' = ops + 1
  /\ prevKind' = kind
  /\ prevFile' = file
  /\ configAuth' = file
  /\ attempt' = 0
  /\ delays' = <<>>
  /\ UNCHANGED <<file, logouts>>
  /\ Frame

\* the refresh endpoint answers OK: the record is stored and saved, the new
\* access token returned and sent (auth.ts:189-197, part_003:231-240,
\* part_003:685-697; api-client.ts:26,36-38)
RefreshOk ==
  /\ apc = "refreshing"
  /\ \E d \in RefreshData :
       LET tokens == refreshAccessToken(flow, evt.refreshWith, d) IN
       /\ evt' = [evt EXCEPT !.status = "returned", !.token = tokens.access_token,
                             !.tokens = tokens, !.data = d]
       /\ bearer' = tokens.access_token
       /\ configAuth' = setAuth(tokens)
       /\ file' = configAuth'
  /\ sent' = 1
  /\ apc' = "requesting"
  /\ UNCHANGED <<now, ops, logouts, kind, prevKind, flagToken, envToken, attempt, delays,
                 apiResult, prevFile>>
  /\ Frame

\* a failed refresh that clears the stored session
RefreshFailClears ==
  /\ apc = "refreshing"
  /\ \E r \in {"rejected", "network"} :
       evt' = [evt EXCEPT !.status = "threw", !.error = RefreshError(flow, r)]
  /\ configAuth' = NoTokens
  /\ file' = NoTokens
  /\ bearer' = configAuth.access_token
  /\ sent' = 1
  /\ apc' = "requesting"
  /\ UNCHANGED <<now, ops, logouts, kind, prevKind, flagToken, envToken, attempt, delays,
                 apiResult, prevFile>>
  /\ Frame

\* the refresh endpoint rejects, or the fetch fails: ensureValidToken throws
\* (auth.ts:157-160, part_003:698-700); getAuthHeaders catches and sends the
\* stored access token (api-client.ts:27-38)
RefreshFail ==
  /\ apc = "refreshing"
  /\ \E r \in {"rejected", "network"} :
       evt' = [evt EXCEPT !.status = "threw", !.error = RefreshError(flow, r)]
  /\ bearer' = configAuth.access_token
  /\ sent' = 1
  /\ apc' = "requesting"
  /\ UNCHANGED <<now, ops, logouts, kind, prevKind, flagToken, envToken, attempt, delays,
                 apiResult, prevFile, configAuth, file>>
  /\ Frame

\* parseInt(retryAfter) for the header values of RetryAfters; NaN for a date
NaN == -2
parseInt(str) ==
  CASE str = "2" -> 2
    [] OTHER -> NaN

\* the delay retryRequest computes for a 429 (api-client.ts:89-90)
RateLimitDelay(retryAfter, n) ==
  IF retryAfter # ""
  THEN IF parseInt(retryAfter) = NaN THEN NaN ELSE parseInt(retryAfter) * 1000
  ELSE 2^n * 1000

\* the delay retryRequest computes after a network error (api-client.ts:105)
NetworkDelay(n) == 2^n * 1000

\* retryRequest waits and sends the request again (api-client.ts:91-92,
\* 104-107, 83-85); the clock is read before the first request only, and
\* the time the commands take is part of the pause before the next one
Retry(cause, retryAfter, delay) ==
  /\ delays' = Append(delays, [attempt |-> attempt, cause |-> cause,
                               retryAfter |-> retryAfter, delay |-> delay])
  /\ attempt' = attempt + 1
  /\ sent' = sent + 1
  /\ UNCHANGED <<now, apc, apiResult, configAuth, file>>

\* the session `auth login --token` stores (commands/auth.ts:32-35, 233-236)
tokenAuth(token) ==
  [access_token |-> token, refresh_token |-> "", token_type |-> "Bearer",
   expires_at |-> Absent]

\* a login whose handleApiError returns, so that the token is stored whatever
\* the validation request ended in
ReturnStoring(status) ==
  /\ apc' = "done"
  /\ apiResult' = Result(IF status = 200 \/ kind = "login" THEN "ok"
                         ELSE IF kind = "status" THEN "reported" ELSE "failed",
                         status)
  /\ IF kind = "login"
     THEN configAuth' = tokenAuth(bearer) /\ file' = configAuth'
     ELSE UNCHANGED <<configAuth, file>>
  /\ UNCHANGED <<now, attempt, delays, sent>>

\* retryRequest throws (api-client.ts:95-101, 111) or returns (95); `auth
\* status` reports either (commands/auth.ts:172-184), a resource command
\* exits with status 1 on a throw (part_001:23-26); a login stores its token
\* after a return (commands/auth.ts:32-36) and exits with status 1 on a
\* throw, which handleApiError rethrows (26-30, 113-116; utils.ts:11-38)
Return(status) ==
  /\ apc' = "done"
  /\ apiResult' = Result(IF status = 200 THEN "ok"
                         ELSE IF kind = "status" THEN "reported" ELSE "failed",
                         status)
  /\ IF kind = "login" /\ status = 200
     THEN configAuth' = tokenAuth(bearer) /\ file' = configAuth'
     ELSE UNCHANGED <<configAuth, file>>
  /\ UNCHANGED <<now, attempt, delays, sent>>

\* a retryRequest that retries a 429 whatever the attempt number
retryRequestForever(r) ==
  IF r.status = 429 /\ attempt < Retries + 1
  THEN Retry("429", r.retryAfter, RateLimitDelay(r.retryAfter, attempt))
  ELSE IF r.status = 0 /\ attempt < Retries
  THEN Retry("network", "", NetworkDelay(attempt))
  ELSE Return(r.status)

\* a retryRequest that also retries a response with an error status
retryRequestAll(r) ==
  IF r.status = 429 /\ attempt < Retries
  THEN Retry("429", r.retryAfter, RateLimitDelay(r.retryAfter, attempt))
  ELSE IF r.status # 200 /\ r.status # 429 /\ attempt < Retries
  THEN Retry(IF r.status = 0 THEN "network" ELSE "status", "", NetworkDelay(attempt))
  ELSE Return(r.status)

\* one turn of retryRequest's loop from the end of its fetch
\* (api-client.ts:83-111)
retryRequest(r) ==
  IF r.status = 429 /\ attempt < Retries
  THEN Retry("429", r.retryAfter, RateLimitDelay(r.retryAfter, attempt))
  ELSE IF r.status = 0 /\ attempt < Retries
  THEN Retry("network", "", NetworkDelay(attempt))
  ELSE Return(r.status)

\* the fetch of the API ends
Respond ==
  /\ apc = "requesting"
  /\ \E r \in Responses : retryRequest(r)
  /\ UNCHANGED <<ops, logouts, kind, prevKind, flagToken, envToken, evt, bearer, prevFile>>
  /\ Frame

\* a process starts and runs the login action with options.token set, up
\* to the await of its validation request (commands/auth.ts:19-27, 209-227):
\* the client's authOptions.token is the bearer whatever ROWND_API_TOKEN and
\* the stored session are (api-client.ts:21, 36-38)
LoginToken ==
  /\ apc \in {"idle", "done"}
  /\ ops < MaxOps
  /\ ops' = ops + 1
  /\ \E token \in {"TL"}, env \in {"", "TE"} :
       /\ flagToken' = token
       /\ envToken' = env
       /\ bearer' = token
  /\ kind' = "login"
  /\ prevKind' = kind
  /\ prevFile' = file
  /\ configAuth' = file
  /\ evt' = NoCall
  /\ sent' = 1
  /\ attempt' = 0
  /\ delays' = <<>>
  /\ apc' = "requesting"
  /\ apiResult' = Result("none", 0)
  /\ UNCHANGED <<now, file, logouts>>
  /\ Frame

\* a logout that fails when no session is stored
LogoutStrict ==
  /\ apc \in {"idle", "done"}
  /\ logouts < MaxLogouts
  /\ logouts' = logouts + 1
  /\ kind' = "logout"
  /\ prevKind' = kind
  /\ prevFile' = file
  /\ IF file.access_token = ""
     THEN apiResult' = Result("failed", 0) /\ UNCHANGED <<configAuth, file>>
     ELSE apiResult' = Result("ok", 0) /\ configAuth' = NoTokens /\ file' = NoTokens
  /\ apc' = "done"
  /\ flagToken' = "" /\ envToken' = ""
  /\ evt' = NoCall /\ bearer' = "" /\ sent' = 0 /\ attempt' = 0 /\ delays' = <<>>
  /\ UNCHANGED <<now, ops>>
  /\ Frame

\* a process starts and runs `auth logout`: clearAuth, save
\* (commands/auth.ts:122-133, config.ts:64-66, 36-46)
Logout ==
  /\ apc \in {"idle", "done"}
  /\ logouts < MaxLogouts
  /\ logouts' = logouts + 1
  /\ kind' = "logout"
  /\ prevKind' = kind
  /\ prevFile' = file
  /\ configAuth' = NoTokens
  /\ file' = NoTokens
  /\ apiResult' = Result("ok", 0)
  /\ apc' = "done"
  /\ flagToken' = "" /\ envToken' = ""
  /\ evt' = NoCall /\ bearer' = "" /\ sent' = 0 /\ attempt' = 0 /\ delays' = <<>>
  /\ UNCHANGED <<now, ops>>
  /\ Frame

\* ------------------------------------------------------------------ Next
Next ==
  \/ PreFail
  \/ PreTokens
  \/ Begin
  \/ ListenOk
  \/ ListenerError
  \/ Deadline
  \/ Receive
  \/ ExchangeOk
  \/ ExchangeFail
  \/ CallbackPollDone
  \/ Tick
  \/ PollDone
  \/ CommandStore
  \/ CommandFail

Spec == Init /\ [][Next]_vars

\* the event loop runs a timer that is due, and the awaits before the
\* callback server exists end
FairSpec ==
  /\ Spec
  /\ WF_vars(Deadline)
  /\ WF_vars(PreFail \/ PreTokens \/ Begin)

\* ------------------------------------------------ the PKCE attempts
\* the attempts that use PKCE (pkce, oauth), over the draws of randomBytes,
\* started with an earlier login's session stored
PkceInit ==
  /\ flow \in {"pkce", "oauth"}
  /\ pc = "pre"
  /\ challengeId = FALSE
  /\ resolved = FALSE
  /\ outcome = Pending
  /\ settleLog = <<>>
  /\ listener = "none"
  /\ closeCalls = 0
  /\ pollTimer = "none"
  /\ clearCalls = 0
  /\ timer = "none"
  /\ browser = "none"
  /\ reqs = <<>>
  /\ ticks = 0
  /\ polling = 0
  /\ failedPolls = 0
  /\ errors = 0
  /\ crashed = FALSE
  /\ cmd = "awaiting"
  /\ configAuth = OldAuth
  /\ file = configAuth
  /\ file0 = configAuth
  /\ rng \in Draws
  /\ pkce = NoPkce
  /\ now = StartTime
  /\ apc = "idle"
  /\ ops = 0
  /\ logouts = 0
  /\ kind = "none"
  /\ prevKind = "none"
  /\ flagToken = ""
  /\ envToken = ""
  /\ evt = NoCall
  /\ bearer = ""
  /\ sent = 0
  /\ attempt = 0
  /\ delays = <<>>
  /\ apiResult = Result("none", 0)
  /\ prevFile = configAuth

PkceNext ==
  \/ PreFail
  \/ PreTokens
  \/ Begin
  \/ ListenOk
  \/ ListenerError
  \/ Deadline
  \/ Receive
  \/ ExchangeOk
  \/ ExchangeFail
  \/ CommandStore
  \/ CommandFail

PkceSpec == PkceInit /\ [][PkceNext]_vars

\* ----------------------------------------------- the session's commands
\* the commands start from a stored session and no login attempt (file0,
\* the session an attempt found, stays empty)
SessionInit ==
  /\ flow \in Flows
  /\ pc = "pre"
  /\ challengeId = FALSE
  /\ resolved = FALSE
  /\ outcome = Pending
  /\ settleLog = <<>>
  /\ listener = "none"
  /\ closeCalls = 0
  /\ pollTimer = "none"
  /\ clearCalls = 0
  /\ timer = "none"
  /\ browser = "none"
  /\ reqs = <<>>
  /\ ticks = 0
  /\ polling = 0
  /\ failedPolls = 0
  /\ errors = 0
  /\ crashed = FALSE
  /\ cmd = "awaiting"
  /\ configAuth \in StoredRecords
  /\ file = configAuth
  /\ file0 = NoTokens
  /\ rng = FirstDraw
  /\ pkce = NoPkce
  /\ now = StartTime
  /\ apc = "idle"
  /\ ops = 0
  /\ logouts = 0
  /\ kind = "none"
  /\ prevKind = "none"
  /\ flagToken = ""
  /\ envToken = ""
  /\ evt = NoCall
  /\ bearer = ""
  /\ sent = 0
  /\ attempt = 0
  /\ delays = <<>>
  /\ apiResult = Result("none", 0)
  /\ prevFile = configAuth

SessionNext ==
  \/ RunCommand
  \/ RefreshOk
  \/ RefreshFail
  \/ Respond
  \/ LoginToken
  \/ Logout

SessionSpec == SessionInit /\ [][SessionNext]_vars

\* ================================================================ claims
Callbacks == {i \in 1..Len(reqs) : reqs[i].p.path = "/callback"}

\* C1: the outcome of an attempt is settled once: the first value handed to
\* resolve/reject is the outcome for good, and where finish/done guard the
\* resolution (pkce, hub) no second value is ever handed over.
C1_SingleResolution ==
  /\ settleLog = <<>> => outcome = Pending
  /\ settleLog # <<>> => outcome = Head(settleLog)
  /\ flow \in {"pkce", "hub"} => Len(settleLog) <= 1

\* C1 witness: the timer resolved the attempt while an exchange was awaited,
\* and that exchange then ended with tokens.
C1_Witness ==
  /\ flow = "pkce"
  /\ Kind(outcome) = "timeout"
  /\ \E i \in Callbacks : reqs[i].xres = "ok" /\ ~reqs[i].sawPending

\* C2 (as claimed): a /callback request that brings a code and a state other
\* than the issued one (or none) never has its code exchanged, and, arriving
\* with no error parameter while the attempt is pending, it resolves the
\* attempt with state_mismatch.
C2_StateCheckedBeforeExchange ==
  \A i \in Callbacks :
    (reqs[i].p.code /\ reqs[i].p.state # IssuedState) =>
      /\ reqs[i].xcount = 0
      /\ (~reqs[i].late /\ reqs[i].p.error = "") => Kind(outcome) = "state_mismatch"

\* C3 (as claimed): once the attempt has resolved the callback server is no
\* longer listening.
C3_ResolvedImpliesClosed ==
  outcome # Pending => listener # "listening"

\* C4 (as claimed): server.close() and clearInterval(pollTimer) are each
\* called exactly once: never twice, and once the attempt of a started
\* server has resolved, not zero times.
C4_CloseAndStopExactlyOnce ==
  /\ closeCalls <= 1
  /\ clearCalls <= 1
  /\ (pc = "racing" /\ outcome # Pending) =>
       /\ closeCalls = 1
       /\ flow = "hub" => clearCalls = 1

\* C5: the attempt does not stay pending: the outcome is settled (or the
\* process has ended) at the latest when the timer fires; a timer that fires
\* on a pending attempt settles it as timeout; and with a timeout outcome
\* the server is closed and no poll interval is left.
C5_DeadlineResolves ==
  /\ [](timer = "fired" => outcome # Pending)
  /\ [][(timer = "armed" /\ timer' = "fired" /\ outcome = Pending)
          => Kind(outcome') = "timeout"]_vars
  /\ [](Kind(outcome) = "timeout" =>
          listener = "closed" /\ pollTimer \notin {"active", "noop"})
  /\ <>(outcome # Pending \/ crashed)

\* C5 witness: a polled hub attempt that nothing answered, ended by the timer.
C5_Witness ==
  /\ flow = "hub" /\ challengeId
  /\ ticks > 0 /\ polling = 0
  /\ Kind(outcome) = "timeout"
  /\ listener = "closed" /\ pollTimer = "cleared"

\* C6 (as claimed): a request that arrives after the first resolution is
\* answered with an empty response and starts nothing.
C6_LateRequestIsNoOp ==
  \A i \in 1..Len(reqs) :
    reqs[i].late =>
      /\ reqs[i].response = "empty"
      /\ reqs[i].pcq = "finished"
      /\ reqs[i].xcount = 0 /\ reqs[i].checks = 0

\* C7 (as claimed): a /callback request with an error parameter, arriving on
\* a pending attempt, gets the failure page, resolves the attempt as
\* user_denied or provider_error, closes the server and exchanges nothing.
C7_ErrorCallback ==
  \A i \in Callbacks :
    (reqs[i].p.error # "" /\ ~reqs[i].late) =>
      /\ reqs[i].response = "failure_page"
      /\ reqs[i].xcount = 0
      /\ Kind(outcome) \in {"user_denied", "provider_error"}
      /\ listener = "closed"

\* C8 (as claimed): a /callback request with no error and no code (hub: no
\* access_token), arriving on a pending attempt with no challenge polled,
\* resolves the attempt as missing_code whatever its state.
C8_MissingCode ==
  \A i \in Callbacks :
    (/\ reqs[i].p.error = "" /\ ~reqs[i].p.code /\ ~reqs[i].p.access_token
     /\ ~reqs[i].late /\ ~challengeId) =>
      Kind(outcome) = "missing_code"

\* C9: a callback's failed exchange resolves a pending attempt as
\* exchange_failed, and no request sends more than one request to the token
\* endpoint.
C9_ExchangeFailedNoRetry ==
  \A i \in 1..Len(reqs) :
    /\ reqs[i].xcount <= 1
    /\ (reqs[i].xres \in {"rejected", "network"} /\ reqs[i].sawPending) =>
         /\ Kind(outcome) = "exchange_failed"
         /\ reqs[i].pcq = "finished"

\* C9 witness: a network failure of the exchange ended a pending attempt.
C9_Witness ==
  \E i \in Callbacks :
    /\ reqs[i].xres = "network" /\ reqs[i].sawPending
    /\ reqs[i].xcount = 1
    /\ Kind(outcome) = "exchange_failed"

C11_PollerKeepsPolling ==
  /\ [][polling' < polling =>
         IF failedPolls' = failedPolls
         THEN outcome' = (IF outcome = Pending THEN Success(PollTokens) ELSE outcome)
         ELSE /\ outcome' = outcome /\ resolved' = resolved
              /\ pollTimer' = pollTimer /\ listener' = listener]_vars
  /\ [][(ticks' > ticks /\ resolved) => polling' = polling]_vars
  /\ []((flow = "hub" /\ challengeId /\ pc = "racing" /\ ~resolved) =>
          pollTimer = "active")

\* C11 witness: a status check failed, the next tick's check returned tokens
\* and they are the outcome.
C11_Witness ==
  /\ flow = "hub" /\ challengeId
  /\ ticks = 2 /\ polling = 0 /\ failedPolls = 1
  /\ outcome = Success(PollTokens)
  /\ pollTimer = "cleared"

\* C12: a call of ensureValidToken that finds a stored access token with no
\* expires_at, or one more than 5 minutes after the time of the call,
\* returns that access token, sends nothing to the refresh endpoint and
\* leaves the record in memory and the persisted one as they were.
C12_ValidTokenNoRefresh ==
  (/\ evt.status # "none" /\ evt.auth.access_token # ""
   /\ (evt.auth.expires_at = Absent \/ evt.auth.expires_at > evt.at + Skew)) =>
    /\ evt.status = "returned"
    /\ evt.token = evt.auth.access_token
    /\ evt.refreshCalls = 0
    /\ configAuth = evt.auth /\ file = evt.auth

\* C12 witness: a record expiring in 10 minutes was used as it is, and the
\* command's request answered.
C12_Witness ==
  /\ evt.status = "returned"
  /\ evt.auth.expires_at = evt.at + 600000
  /\ evt.refreshCalls = 0
  /\ bearer = "AT0" /\ apc = "done" /\ apiResult.status = 200

C14_FailedRefreshStoresNothing ==
  (evt.status = "threw" /\ evt.refreshCalls > 0) =>
    /\ TokenKind(evt.error) = "session_expired"
    /\ evt.token = "" /\ evt.tokens = NoTokens
    /\ configAuth = evt.auth /\ file = evt.auth

\* C14 witness: the refresh of a record that expired a minute ago failed.
C14_Witness ==
  /\ evt.status = "threw" /\ evt.refreshCalls = 1
  /\ evt.auth.expires_at = evt.at - 60000
  /\ file.access_token = "AT0" /\ file.expires_at = evt.auth.expires_at

\* C15 (as claimed): after ensureValidToken threw, the command sends no
\* request and ends as a failure.
C15_NoSilentRecovery ==
  evt.status = "threw" =>
    /\ sent = 0
    /\ apc = "done" => apiResult.exit = "failed"

\* C16 (as claimed): when the API answers 401 to a request sent with a stored
\* token that has no expires_at and a refresh token, a refresh is attempted.
C16_ForcedRefresh ==
  (/\ evt.status = "returned" /\ evt.auth.expires_at = Absent
   /\ evt.auth.refresh_token # ""
   /\ apc = "done" /\ apiResult.status = 401) =>
    evt.refreshCalls > 0

\* C17: a logout never fails and leaves no session, in memory or persisted;
\* a logout that follows a logout changes nothing and ends as the first did.
C17_LogoutIdempotent ==
  [][logouts' > logouts =>
       /\ file' = NoTokens /\ configAuth' = NoTokens
       /\ apiResult'.exit = "ok"
       /\ kind = "logout" => (file' = file /\ apiResult' = apiResult)]_vars

\* C17 witness: two logouts in a row, the second with no session stored.
C17_Witness ==
  /\ kind = "logout" /\ prevKind = "logout" /\ logouts = 2
  /\ prevFile = NoTokens /\ file = NoTokens
  /\ apiResult.exit = "ok"

\* C18 (as claimed): the bearer of a command's requests is the --token flag's
\* value if given, else ROWND_API_TOKEN if set, else the stored access token.
C18_CredentialPrecedence ==
  sent > 0 =>
    bearer = (IF flagToken # "" THEN flagToken
              ELSE IF envToken # "" THEN envToken
              ELSE configAuth.access_token)

C20_LoginRecord ==
  \A i \in Callbacks :
    (reqs[i].xres = "ok" /\ reqs[i].sawPending) =>
      /\ outcome.tokens.access_token = reqs[i].data.access_token
      /\ outcome.tokens.refresh_token = reqs[i].data.refresh_token
      /\ reqs[i].data.expires_in # Absent =>
           outcome.tokens.expires_at = reqs[i].at + reqs[i].data.expires_in * 1000
      /\ cmd = "stored" => (file = outcome.tokens /\ configAuth = outcome.tokens)

\* C21: the listen callback that finds the browser cannot be opened prints
\* the authorization URL and settles nothing: the outcome, the flag and the
\* timer are as before and the server listens; an attempt whose URL was
\* printed and that is still pending has its server listening and its timer
\* armed, so that a callback or the deadline can still resolve it.
C21_BrowserFailureKeepsPending ==
  /\ [][(browser = "none" /\ browser' = "url_printed") =>
         /\ outcome' = outcome /\ resolved' = resolved /\ settleLog' = settleLog
         /\ listener' = "listening" /\ timer' = timer]_vars
  /\ []((browser = "url_printed" /\ outcome = Pending /\ Alive) =>
          (listener = "listening" /\ timer = "armed"))

\* C21 witness: the browser could not be opened, the URL was printed, and
\* the attempt then ended with the tokens of a callback's exchange.
C21_Witness ==
  /\ flow = "pkce" /\ browser = "url_printed"
  /\ outcome.tag = "tokens"
  /\ \E i \in Callbacks : reqs[i].xres = "ok" /\ reqs[i].sawPending

\* C22 (as claimed): no failure raised in the request handler escapes it: a
\* request whose URL cannot be parsed, handled on an unresolved attempt, does
\* not end in an unhandled rejection.
C22_FailuresFunneled ==
  \A i \in 1..Len(reqs) :
    (reqs[i].p.path = "//" /\ ~reqs[i].late) => ~crashed

\* C23: the PKCE material is set once in an attempt, and when it is set the
\* verifier is base64url of the bytes drawn and the code_challenge of the
\* authorization URL is base64url(SHA-256(verifier)) of that verifier, not
\* the verifier itself; every token request of the attempt sends that
\* verifier as code_verifier; and neither verifier, challenge nor state is a
\* field of the session in memory or persisted.
C23_PkceBinding ==
  /\ [][pkce' # pkce =>
         /\ pkce = NoPkce
         /\ pkce'.verifier = base64url(rng)
         /\ pkce'.challenge = base64url(sha256(pkce'.verifier))
         /\ pkce'.challenge # pkce'.verifier
         /\ pkce'.state = IssuedState]_vars
  /\ [](\A i \in 1..Len(reqs) :
          reqs[i].xcount > 0 => (pkce # NoPkce /\ reqs[i].verifier = pkce.verifier))
  /\ [](pkce # NoPkce =>
          {pkce.verifier, pkce.challenge, pkce.state}
            \cap {file.access_token, file.refresh_token, file.token_type,
                  configAuth.access_token, configAuth.refresh_token,
                  configAuth.token_type} = {})

\* C23 witness: the bytes 251, 240 were drawn, the URL carried the challenge
\* of the verifier "-_A", a callback's exchange sent that verifier, and the
\* command stored the tokens.
C23_Witness ==
  /\ flow = "oauth" /\ rng = <<251, 240>>
  /\ pkce.verifier = "-_A" /\ pkce.challenge = "vhE"
  /\ cmd = "stored"
  /\ \E i \in Callbacks : reqs[i].xres = "ok" /\ reqs[i].verifier = "-_A"

\* C24: an 'error' event of the callback server while it binds its port
\* resolves the attempt at once: the promise is settled, as listener_error
\* if it was pending, and the server does not listen.
C24_BindFailureResolves ==
  [][(errors' > errors /\ listener = "binding") =>
       /\ resolved'
       /\ outcome' # Pending
       /\ outcome = Pending => Kind(outcome') = "listener_error"
       /\ listener' # "listening"]_vars

\* C24 witness: the bind failed before any request and before the timer
\* fired, and the attempt is resolved as listener_error.
C24_Witness ==
  /\ errors = 1 /\ browser = "none" /\ Len(reqs) = 0
  /\ timer = "armed"
  /\ Kind(outcome) = "listener_error"
  /\ cmd = "exited"

\* C26 (as claimed): at most one request of an attempt sends its code to the
\* token endpoint.
C26_SingleExchange ==
  Cardinality({i \in 1..Len(reqs) : reqs[i].xcount > 0}) <= 1

\* C27 (as claimed): a request is answered with the success page only if the
\* attempt resolved with tokens.
C27_SuccessPageOnlyOnTokens ==
  \A i \in 1..Len(reqs) :
    reqs[i].response = "success_page" => outcome.tag = "tokens"

\* C28 (as claimed): once the attempt has resolved, its timer is no longer
\* armed and no poll interval is left.
C28_NothingScheduled ==
  (pc = "racing" /\ outcome # Pending) =>
    /\ timer # "armed"
    /\ pollTimer \notin {"active", "noop"}

\* C25: the n-th wait of retryRequest after a network error is 1 s, 2 s, 4 s
\* by n; nothing but a network error or a 429 is followed by another
\* request; a network error ends the command only as the result of the
\* fourth request, and as an error; a response with another error status
\* ends the command at once, as an error that carries the status.
C25_NetworkRetryOnly ==
  /\ \A i \in 1..Len(delays) :
       /\ delays[i].cause \in {"network", "429"}
       /\ delays[i].cause = "network" => delays[i].delay = <<1000, 2000, 4000>>[i]
  /\ (apc = "done" /\ sent > 0 /\ apiResult.status = 0) =>
       /\ attempt = Retries /\ sent = Retries + 1
       /\ apiResult.exit # "ok"
  /\ (apc = "done" /\ apiResult.status \in {401, 500}) =>
       /\ sent = attempt + 1
       /\ apiResult.exit # "ok"
       /\ delays = <<>> => sent = 1

\* C25 witness: a request answered 500 was not sent again, and the command
\* failed with that status.
C25_Witness ==
  /\ kind = "resource" /\ apc = "done"
  /\ apiResult = Result("failed", 500)
  /\ sent = 1 /\ delays = <<>>

\* C29 (as claimed): the record built from the refresh endpoint's answer has
\* no expires_at exactly when the answer carries no expires_in, and
\* otherwise expires_at = time of the call + expires_in seconds.
C29_ExpiryFromResponse ==
  (evt.status = "returned" /\ evt.refreshCalls > 0) =>
    IF evt.data.expires_in = Absent
    THEN evt.tokens.expires_at = Absent
    ELSE evt.tokens.expires_at = evt.at + evt.data.expires_in * 1000

\* C30: a login given a token stores nothing while its validation request is
\* awaited; when the request succeeds the session is that token, and when
\* it fails, with an error status or a network error, the session in memory
\* and persisted is as the command found it and the command fails.
C30_TokenLogin ==
  kind = "login" =>
    /\ sent > 0 /\ bearer = flagToken
    /\ apc = "requesting" => (file = prevFile /\ configAuth = prevFile)
    /\ apc = "done" =>
         IF apiResult.status = 200
         THEN /\ file = tokenAuth(flagToken) /\ configAuth = file
              /\ apiResult.exit = "ok"
         ELSE /\ file = prevFile /\ configAuth = prevFile
              /\ apiResult.exit = "failed"

\* C30 witness: the validation request of a login failed four times with a
\* network error; the command failed and the earlier session is still stored.
C30_Witness ==
  /\ kind = "login" /\ apc = "done"
  /\ apiResult = Result("failed", 0) /\ sent = 4
  /\ prevFile.access_token = "AT0"
  /\ file = prevFile /\ bearer = "TL"

====
